---------------------------- MODULE Spec2Model ----------------------------
(***************************************************************************)
(* A model of the hazure front-end parser (crates/parser/src/lib.rs) and   *)
(* of its TypeScript code generator (crates/codegen/src/ts.rs).            *)
(*                                                                         *)
(* Text is a sequence of one-character strings, so that the presence of a  *)
(* statement separator, a trailing newline or a quote is a property of the *)
(* rendered characters.                                                    *)
(***************************************************************************)
EXTENDS Integers, Sequences, FiniteSets, TLC

VARIABLES
    tokens,     \* parse: the spanned token stream handed to parse
    len,        \* parse: the source length handed to parse
    ast,        \* parse: the first component of parse's result (Option)
    errors,     \* parse: the second component of parse's result
    ppc,        \* parse: "ready" before the call, "parsed" after it
    emitted,    \* Codegen.emitted, the text buffer
    pre,        \* what the buffer held when gen was called
    irs,        \* the argument of gen
    idx,        \* gen: index of the next top-level node of the for loop
    last,       \* gen: the text the latest gen_ir call of the loop returned
    pc          \* gen: position in the body of gen

pvars == <<tokens, len, ast, errors, ppc>>
gvars == <<emitted, pre, irs, idx, last, pc>>
vars == <<tokens, len, ast, errors, ppc, emitted, pre, irs, idx, last, pc>>

-----------------------------------------------------------------------------
(* Bounds of the model.                                                    *)

\* top-level items of a well-formed program handed to parse
MaxProgItems == 2
\* top-level IR nodes handed to gen
MaxItems == 2

-----------------------------------------------------------------------------
(* Generic helpers on sequences.                                           *)

RECURSIVE Concat(_)
Concat(ss) == IF ss = <<>> THEN <<>> ELSE Head(ss) \o Concat(Tail(ss))

SeqsUpTo(S, n) == UNION {[1..k -> S] : k \in 0..n}

-----------------------------------------------------------------------------
(* PARSER: crates/parser/src/lib.rs                                        *)

\* Spanned<T> = (T, Range<usize>): a pair <<value, [start, end]>>
Span(s, e) == [start |-> s, end |-> e]
Spanned(x, sp) == <<x, sp>>

\* Results of a combinator: success with the next position and the output,
\* or failure (the stream is rewound by the caller, PEG style).
Ok(p, o) == [ok |-> TRUE, pos |-> p, out |-> o]
Fail == [ok |-> FALSE, pos |-> 0, out |-> <<>>]

\* just(Token::k) at position i
Just(ts, i, k) == i <= Len(ts) /\ ts[i][1].kind = k

\* Display of an operator token (op.to_string()); the lexer crate defines it:
\* the operator tokens are + - * / < > = !=
TokenToString(t) ==
    CASE t.kind = "Plus" -> "+"
      [] t.kind = "Minus" -> "-"
      [] t.kind = "Multiply" -> "*"
      [] t.kind = "Divide" -> "/"
      [] t.kind = "Less" -> "<"
      [] t.kind = "Greater" -> ">"
      [] t.kind = "Equal" -> "="
      [] t.kind = "NotEqual" -> "!="
      [] OTHER -> t.kind

\* f.parse().unwrap() on the lexeme of a float token: the f64 it denotes,
\* kept as a reduced fraction of tenths.
ParseFloat(s) ==
    CASE s = "1.5" -> [num |-> 3, den |-> 2]
      [] s = "1.50" -> [num |-> 3, den |-> 2]
      [] s = "2.0" -> [num |-> 2, den |-> 1]
      [] OTHER -> [num |-> 0, den |-> 1]

identifier(ts, i) ==
    IF i <= Len(ts) /\ ts[i][1].kind = "Identifier"
    THEN Ok(i + 1, Spanned(ts[i][1].str, ts[i][2]))
    ELSE Fail

literal(ts, i) ==
    IF i > Len(ts) THEN Fail
    ELSE LET t == ts[i][1]
             sp == ts[i][2]
         IN CASE t.kind = "Int" -> Ok(i + 1, Spanned([kind |-> "Int", int |-> t.int], sp))
              [] t.kind = "Float" -> Ok(i + 1, Spanned([kind |-> "Float", float |-> ParseFloat(t.str)], sp))
              [] t.kind = "Boolean" -> Ok(i + 1, Spanned([kind |-> "Boolean", bool |-> t.bool], sp))
              [] t.kind = "String" -> Ok(i + 1, Spanned([kind |-> "String", str |-> t.str], sp))
              [] OTHER -> Fail

\* a.or(b): the first alternative that succeeds
Or(a, b) == IF a.ok THEN a ELSE b

\* identifier.map(|(s, span)| (Expr::Identifier(s), span))
IdentifierExpr(id) ==
    IF id.ok
    THEN Ok(id.pos, Spanned([kind |-> "Identifier", str |-> id.out[1]], id.out[2]))
    ELSE Fail

atom(ts, i) == Or(literal(ts, i), IdentifierExpr(identifier(ts, i)))

RECURSIVE expr(_, _)

\* expr.separated_by(just(Comma)).allow_trailing(): zero or more items; a
\* separator that no item follows is left to the trailing-separator rule.
RECURSIVE args_rest(_, _, _)

\* nx: the result of expr after the separator at i
args_item(ts, i, acc, nx) ==
    IF nx.ok THEN args_rest(ts, nx.pos, Append(acc, nx.out))
    ELSE [pos |-> i + 1, items |-> acc]

args_rest(ts, i, acc) ==
    IF Just(ts, i, "Comma") THEN args_item(ts, i, acc, expr(ts, i + 1))
    ELSE [pos |-> i, items |-> acc]

\* first: the result of expr at i
args_first(ts, i, first) ==
    IF first.ok THEN args_rest(ts, first.pos, <<first.out>>)
    ELSE [pos |-> i, items |-> <<>>]

args(ts, i) == args_first(ts, i, expr(ts, i))

\* the foldl of call: each parenthesised argument list wraps the expression
\* parsed so far, and the node keeps the span of that expression (name.1)
RECURSIVE call_foldl(_, _, _)

\* a: the argument list after the parenthesis at i
call_args(ts, i, name, a) ==
    IF Just(ts, a.pos, "CloseParen")
    THEN call_foldl(ts, a.pos + 1,
            Spanned([kind |-> "Call", name |-> name,
                     args |-> Spanned(a.items, name[2])], name[2]))
    ELSE Ok(i, name)

call_foldl(ts, i, name) ==
    IF Just(ts, i, "OpenParen") THEN call_args(ts, i, name, args(ts, i + 1))
    ELSE Ok(i, name)

call_atom(ts, a) == IF a.ok THEN call_foldl(ts, a.pos, a.out) ELSE Fail

call(ts, i) == call_atom(ts, atom(ts, i))

\* the closure of the foldr of unary: the node keeps the span rhs.1
unary_foldr(op, r) ==
    IF r.ok
    THEN Ok(r.pos, Spanned([kind |-> "Unary", op |-> TokenToString(op),
                            rhs |-> r.out], r.out[2]))
    ELSE Fail

\* choice((just(Plus), just(Minus))).repeated().then(call).foldr(...): every
\* prefix operator wraps what follows it
RECURSIVE unary(_, _)
unary(ts, i) ==
    IF Just(ts, i, "Plus") \/ Just(ts, i, "Minus")
    THEN unary_foldr(ts[i][1], unary(ts, i + 1))
    ELSE call(ts, i)

\* the closure of the three foldl's: a Binary node with the span rhs.1
Binary(lhs, op, rhs) ==
    Spanned([kind |-> "Binary", lhs |-> lhs, op |-> TokenToString(op), rhs |-> rhs], rhs[2])

\* the operators of term where those of factor belong
FactorOpsSwapped == {"Plus", "Minus"}
FactorOps == {"Multiply", "Divide"}
TermOps == {"Plus", "Minus"}
CompareOps == {"Less", "Greater", "Equal", "NotEqual"}

RECURSIVE factor_foldl(_, _, _)

\* r: the result of unary after the operator at i
factor_rhs(ts, i, lhs, r) ==
    IF r.ok THEN factor_foldl(ts, r.pos, Binary(lhs, ts[i][1], r.out))
    ELSE Ok(i, lhs)

factor_foldl(ts, i, lhs) ==
    IF i <= Len(ts) /\ ts[i][1].kind \in FactorOps
    THEN factor_rhs(ts, i, lhs, unary(ts, i + 1))
    ELSE Ok(i, lhs)

factor_lhs(ts, u) == IF u.ok THEN factor_foldl(ts, u.pos, u.out) ELSE Fail

factor(ts, i) == factor_lhs(ts, unary(ts, i))

RECURSIVE term_foldl(_, _, _)

\* r: the result of factor after the operator at i
term_rhs(ts, i, lhs, r) ==
    IF r.ok THEN term_foldl(ts, r.pos, Binary(lhs, ts[i][1], r.out))
    ELSE Ok(i, lhs)

term_foldl(ts, i, lhs) ==
    IF i <= Len(ts) /\ ts[i][1].kind \in TermOps
    THEN term_rhs(ts, i, lhs, factor(ts, i + 1))
    ELSE Ok(i, lhs)

term_lhs(ts, f) == IF f.ok THEN term_foldl(ts, f.pos, f.out) ELSE Fail

term(ts, i) == term_lhs(ts, factor(ts, i))

RECURSIVE compare_foldl(_, _, _)

\* r: the result of term after the operator at i
compare_rhs(ts, i, lhs, r) ==
    IF r.ok THEN compare_foldl(ts, r.pos, Binary(lhs, ts[i][1], r.out))
    ELSE Ok(i, lhs)

compare_foldl(ts, i, lhs) ==
    IF i <= Len(ts) /\ ts[i][1].kind \in CompareOps
    THEN compare_rhs(ts, i, lhs, term(ts, i + 1))
    ELSE Ok(i, lhs)

compare_lhs(ts, t) == IF t.ok THEN compare_foldl(ts, t.pos, t.out) ELSE Fail

compare(ts, i) == compare_lhs(ts, term(ts, i))

\* the map of let_: spanned name.1.start..value.1.end
let_value(name, hint, value) ==
    IF ~value.ok THEN Fail
    ELSE Ok(value.pos,
            Spanned([kind |-> "Let", name |-> name.out[1],
                     type_hint |-> hint.out[1], value |-> value.out],
                    Span(name.out[2].start, value.out[2].end)))

\* name, hint: the results of identifier at i + 1 and at i + 3
let_head(ts, i, name, hint) ==
    IF ~(name.ok /\ Just(ts, i + 2, "Colon") /\ hint.ok /\ Just(ts, i + 4, "Assign"))
    THEN Fail
    ELSE let_value(name, hint, expr(ts, i + 5))

\* let IDENT : IDENT = expr
let_(ts, i) ==
    IF ~Just(ts, i, "KwLet") THEN Fail
    ELSE let_head(ts, i, identifier(ts, i + 1), identifier(ts, i + 3))

RECURSIVE fun_params(_, _, _)

\* n, t: the results of identifier at i + 1 and at i + 3
fun_param(ts, i, acc, n, t) ==
    IF n.ok /\ Just(ts, i + 2, "Colon") /\ t.ok /\ Just(ts, i + 4, "CloseParen")
    THEN fun_params(ts, i + 5, Append(acc, <<n.out, t.out>>))
    ELSE [pos |-> i, items |-> acc]

\* ( IDENT : IDENT ) repeated
fun_params(ts, i, acc) ==
    IF Just(ts, i, "OpenParen")
    THEN fun_param(ts, i, acc, identifier(ts, i + 1), identifier(ts, i + 3))
    ELSE [pos |-> i, items |-> acc]

\* the map of fun: spanned name.1.start..body.1.end
fun_body(name, ps, hint, body) ==
    IF ~body.ok THEN Fail
    ELSE Ok(body.pos,
            Spanned([kind |-> "Fun", name |-> name.out[1],
                     type_hint |-> hint.out[1],
                     args |-> Spanned(ps.items, name.out[2]),
                     body |-> body.out],
                    Span(name.out[2].start, body.out[2].end)))

\* hint: the result of identifier after the colon that follows the parameters
fun_hint(ts, name, ps, hint) ==
    IF ~(Just(ts, ps.pos, "Colon") /\ hint.ok /\ Just(ts, ps.pos + 2, "Assign"))
    THEN Fail
    ELSE fun_body(name, ps, hint, expr(ts, ps.pos + 3))

\* name, ps: the results of identifier at i + 1 and of the parameters after it
fun_head(ts, name, ps) ==
    IF ~name.ok THEN Fail
    ELSE fun_hint(ts, name, ps, identifier(ts, ps.pos + 1))

\* fun IDENT (params)* : IDENT = expr
fun(ts, i) ==
    IF ~Just(ts, i, "KwFun") THEN Fail
    ELSE fun_head(ts, identifier(ts, i + 1), fun_params(ts, i + 2, <<>>))

RECURSIVE statements(_, _, _)

\* e: the result of expr at i
statement(ts, i, acc, e) ==
    IF e.ok /\ Just(ts, e.pos, "SemiColon")
    THEN statements(ts, e.pos + 1, Append(acc, e.out))
    ELSE [pos |-> i, items |-> acc]

\* (expr ;) repeated: stops, rewound, before the first item that fails
statements(ts, i, acc) == statement(ts, i, acc, expr(ts, i))

\* the map_with_span of do_block: the span of all the tokens consumed
do_end(ts, i, body) ==
    IF ~Just(ts, body.pos, "KwEnd") THEN Fail
    ELSE Ok(body.pos + 1,
            Spanned([kind |-> "Do", body |-> body.items],
                    Span(ts[i][2].start, ts[body.pos][2].end)))

\* do (expr ;)* end
do_block(ts, i) ==
    IF ~Just(ts, i, "KwDo") THEN Fail
    ELSE do_end(ts, i, statements(ts, i + 1, <<>>))

\* let_.or(fun).or(do_block).or(compare)
expr(ts, i) == Or(let_(ts, i), Or(fun(ts, i), Or(do_block(ts, i), compare(ts, i))))

\* then_ignore(end()): the items, if they reach the end of the stream
end(ts, items) ==
    IF items.pos = Len(ts) + 1 THEN Ok(items.pos, items.items) ELSE Fail

\* expr.then_ignore(just(SemiColon)).repeated().then_ignore(end())
expr_parser(ts) == end(ts, statements(ts, 1, <<>>))

\* Option<T>
Some(x) == [some |-> TRUE, val |-> x]
None == [some |-> FALSE, val |-> <<>>]

\* parse_recovery with no recovery strategy in the grammar: the output when
\* the whole stream parses, else None and the error that stopped the parse.
\* Of an error only its presence is kept (its span and expected set are not
\* modelled).
parse_recovery(r) ==
    IF r.ok THEN [ast |-> Some(r.out), errors |-> <<>>]
    ELSE [ast |-> None, errors |-> <<"Simple">>]

\* the parameter len only feeds the end-of-input span of an error
parse(ts, l) == parse_recovery(expr_parser(ts))


-----------------------------------------------------------------------------
(* CODE GENERATOR: crates/codegen/src/ts.rs                                *)

\* The result of a gen_ir call that panics (unreachable!, or an index past
\* the end of args); no text holds this element.
Panic == <<"panic">>

\* format!: the pieces in order; a piece whose evaluation panicked unwinds
\* the whole call
Format(parts) ==
    IF \E k \in 1..Len(parts) : parts[k] = Panic THEN Panic ELSE Concat(parts)

\* collect::<Vec<_>>().join(sep)
RECURSIVE Join(_, _)
Join(ss, sep) ==
    IF ss = <<>> THEN <<>>
    ELSE IF Len(ss) = 1 THEN Head(ss)
    ELSE Head(ss) \o sep \o Join(Tail(ss), sep)

JoinAll(ss, sep) ==
    IF \E k \in 1..Len(ss) : ss[k] = Panic THEN Panic ELSE Join(ss, sep)

EndsWith(s, suffix) ==
    /\ Len(s) >= Len(suffix)
    /\ SubSeq(s, Len(s) - Len(suffix) + 1, Len(s)) = suffix

StartsWith(s, prefix) ==
    /\ Len(s) >= Len(prefix)
    /\ SubSeq(s, 1, Len(prefix)) = prefix

\* str::trim_end_matches: the suffix is removed as often as it matches
RECURSIVE trim_end_matches(_, _)
trim_end_matches(s, pat) ==
    IF pat # <<>> /\ EndsWith(s, pat)
    THEN trim_end_matches(SubSeq(s, 1, Len(s) - Len(pat)), pat)
    ELSE s

\* str::trim_start_matches: the prefix is removed as often as it matches
RECURSIVE trim_start_matches(_, _)
trim_start_matches(s, pat) ==
    IF pat # <<>> /\ StartsWith(s, pat)
    THEN trim_start_matches(SubSeq(s, Len(pat) + 1, Len(s)), pat)
    ELSE s

\* Display of an i64
Digit(d) == <<"0", "1", "2", "3", "4", "5", "6", "7", "8", "9">>[d + 1]
RECURSIVE Digits(_)
Digits(n) == IF n < 10 THEN <<Digit(n)>> ELSE Digits(n \div 10) \o <<Digit(n % 10)>>
DisplayInt(n) == IF n < 0 THEN <<"-">> \o Digits(-n) ELSE Digits(n)

\* Display of a bool
DisplayBool(b) == IF b THEN <<"t", "r", "u", "e">> ELSE <<"f", "a", "l", "s", "e">>

\* IRKind and Value, as the code generator reads them
Define(public, mutable, name, type_hint, value) ==
    [kind |-> "Define", public |-> public, name |-> name, type_hint |-> type_hint,
     value |-> value, mutable |-> mutable]
Call(name, as) == [kind |-> "Call", name |-> name, args |-> as]
Intrinsic(name, as) == [kind |-> "Intrinsic", name |-> name, args |-> as]
Fun(public, name, return_type_hint, as, body) ==
    [kind |-> "Fun", public |-> public, name |-> name,
     return_type_hint |-> return_type_hint, args |-> as, body |-> body]
Return(value) == [kind |-> "Return", value |-> value]
Do(body) == [kind |-> "Do", body |-> body]
If(cond, body, else_body) == [kind |-> "If", cond |-> cond, body |-> body, else_body |-> else_body]
Case(cond, cases, default) == [kind |-> "Case", cond |-> cond, cases |-> cases, default |-> default]
Unary(op, right) == [kind |-> "Unary", op |-> op, right |-> right]
BinaryIR(left, op, right) == [kind |-> "Binary", left |-> left, op |-> op, right |-> right]
Vector(values) == [kind |-> "Vector", values |-> values]
VInt(n) == [kind |-> "Value", value |-> [tag |-> "Int", int |-> n]]
VBoolean(b) == [kind |-> "Value", value |-> [tag |-> "Boolean", bool |-> b]]
VString(s) == [kind |-> "Value", value |-> [tag |-> "String", str |-> s]]
VIdent(s) == [kind |-> "Value", value |-> [tag |-> "Ident", str |-> s]]

\* the intrinsic names of the match and the arguments each template indexes
IntrinsicNames == {<<"w", "r", "i", "t", "e">>, <<"w", "r", "i", "t", "e", "_", "f", "i", "l", "e">>, <<"r", "e", "a", "d">>, <<"r", "e", "a", "d", "_", "f", "i", "l", "e">>, <<"e", "m", "i", "t">>, <<"g", "e", "t">>}
ArgsRead(name) == IF name \in {<<"w", "r", "i", "t", "e", "_", "f", "i", "l", "e">>, <<"g", "e", "t">>} THEN 2 ELSE 1

\* macro semicolon!()
semicolon(should_gen_semicolon) == IF should_gen_semicolon THEN <<";">> ELSE <<>>

Quote == <<"\"">>

\* the text of the emit intrinsic, from the rendered argument
EmitText(r) ==
    IF r = Panic THEN Panic ELSE trim_end_matches(trim_start_matches(r, Quote), Quote)

\* the text the Call arm puts between the parentheses, from the rendered args
CallArgsText(rendered) ==
    IF JoinAll(rendered, <<",", " ">>) = Panic THEN Panic
    ELSE trim_end_matches(JoinAll(rendered, <<",", " ">>), <<";", "\n">>)

RECURSIVE gen_ir(_, _)

\* the text the If arm puts between the parentheses of if (...)
IfCondText(ir) == gen_ir(ir.cond, TRUE)
\* the text the Case arm puts between the parentheses of switch (...)
CaseCondText(ir) == gen_ir(ir.cond, TRUE)
\* the text the Case arm puts between case and : of its k-th arm
CasePatternText(ir, k) == gen_ir(ir.cases[k][1], TRUE)
\* the text the Call arm renders its k-th argument to, before the join
CallArgText(ir, k) == gen_ir(ir.args[k], FALSE)

gen_ir(ir, should_gen_semicolon) ==
    CASE ir.kind = "Define" ->
           Format(<<IF ir.public THEN <<"e", "x", "p", "o", "r", "t">> ELSE <<>>, <<" ">>,
                    IF ir.mutable THEN <<"l", "e", "t">> ELSE <<"c", "o", "n", "s", "t">>, <<" ", "v", "_">>, ir.name, <<":", " ">>,
                    ir.type_hint, <<" ", "=", " ">>, gen_ir(ir.value, FALSE),
                    semicolon(should_gen_semicolon), <<"\n">>>>)
      [] ir.kind = "Call" ->
           Format(<<<<"f", "_">>, ir.name, <<"(">>,
                    CallArgsText([k \in 1..Len(ir.args) |-> CallArgText(ir, k)]),
                    <<")">>, semicolon(should_gen_semicolon)>>)
      [] ir.kind = "Intrinsic" ->
           IF ir.name \notin IntrinsicNames THEN Panic
           ELSE IF Len(ir.args) < ArgsRead(ir.name) THEN Panic
           ELSE (CASE ir.name = <<"w", "r", "i", "t", "e">> ->
                       Format(<<<<"w", "r", "i", "t", "e", "(">>, gen_ir(ir.args[1], FALSE), <<")">>,
                                semicolon(should_gen_semicolon), <<"\n">>>>)
                  [] ir.name = <<"w", "r", "i", "t", "e", "_", "f", "i", "l", "e">> ->
                       Format(<<<<"w", "r", "i", "t", "e", "F", "i", "l", "e", "(">>, gen_ir(ir.args[1], FALSE), <<",", " ">>,
                                gen_ir(ir.args[2], FALSE), <<")">>,
                                semicolon(should_gen_semicolon), <<"\n">>>>)
                  [] ir.name = <<"r", "e", "a", "d">> ->
                       Format(<<<<"r", "e", "a", "d", "(">>, gen_ir(ir.args[1], FALSE), <<")">>,
                                semicolon(should_gen_semicolon), <<"\n">>>>)
                  [] ir.name = <<"r", "e", "a", "d", "_", "f", "i", "l", "e">> ->
                       Format(<<<<"r", "e", "a", "d", "F", "i", "l", "e", "(">>, gen_ir(ir.args[1], FALSE), <<")">>,
                                semicolon(should_gen_semicolon), <<"\n">>>>)
                  [] ir.name = <<"e", "m", "i", "t">> -> EmitText(gen_ir(ir.args[1], FALSE))
                  [] ir.name = <<"g", "e", "t">> ->
                       Format(<<gen_ir(ir.args[1], FALSE), <<"[">>,
                                gen_ir(ir.args[2], FALSE), <<"]">>>>))
      [] ir.kind = "Fun" ->
           Format(<<IF ir.public THEN <<"e", "x", "p", "o", "r", "t">> ELSE <<>>, <<" ", "c", "o", "n", "s", "t", " ", "f", "_">>, ir.name, <<" ", "=", " ", "(">>,
                    Join([k \in 1..Len(ir.args) |->
                             <<"v", "_">> \o ir.args[k][1] \o <<":", " ">> \o ir.args[k][2]], <<",", " ">>),
                    <<")", ":", " ">>, ir.return_type_hint, <<" ", "=", ">", " ">>, gen_ir(ir.body, FALSE), <<";", "\n">>>>)
      [] ir.kind = "Return" ->
           Format(<<<<"r", "e", "t", "u", "r", "n", " ">>, gen_ir(ir.value, FALSE), <<";", "\n">>>>)
      [] ir.kind = "Do" ->
           Format(<<<<"{", "\n">>>> \o [k \in 1..Len(ir.body) |-> gen_ir(ir.body[k], TRUE)]
                  \o <<<<"}", "\n">>>>)
      [] ir.kind = "If" ->
           Format(<<<<"i", "f", " ", "(">>, IfCondText(ir), <<")", " ", "{", "\n">>, gen_ir(ir.body, TRUE),
                    <<"}", " ", "e", "l", "s", "e", " ", "{", "\n">>, gen_ir(ir.else_body, TRUE), <<"}", "\n">>>>)
      [] ir.kind = "Case" ->
           Format(<<<<"s", "w", "i", "t", "c", "h", " ", "(">>, CaseCondText(ir), <<")", " ", "{", "\n">>,
                    JoinAll([k \in 1..Len(ir.cases) |->
                                Format(<<<<"c", "a", "s", "e", " ">>, CasePatternText(ir, k), <<":", " ">>,
                                         gen_ir(ir.cases[k][2], TRUE), <<"\n", "b", "r", "e", "a", "k", ";", "\n">>>>)],
                            <<"\n">>),
                    Format(<<<<"d", "e", "f", "a", "u", "l", "t", ":", " ">>, gen_ir(ir.default, TRUE), <<"\n", "b", "r", "e", "a", "k", ";", "\n">>>>),
                    <<"\n", "}", "\n">>>>)
      [] ir.kind = "Unary" ->
           Format(<<ir.op, gen_ir(ir.right, FALSE)>>)
      [] ir.kind = "Binary" ->
           Format(<<gen_ir(ir.left, FALSE), <<" ">>, ir.op, <<" ">>, gen_ir(ir.right, FALSE)>>)
      [] ir.kind = "Value" ->
           (CASE ir.value.tag = "Int" -> DisplayInt(ir.value.int)
             [] ir.value.tag = "Boolean" -> DisplayBool(ir.value.bool)
             [] ir.value.tag = "String" -> Quote \o ir.value.str \o Quote
             [] ir.value.tag = "Ident" -> <<"v", "_">> \o ir.value.str)
      [] ir.kind = "Vector" ->
           Format(<<<<"[">>,
                    JoinAll([k \in 1..Len(ir.values) |-> gen_ir(ir.values[k], FALSE)], <<",", " ">>),
                    <<"]">>>>)

\* env!("CARGO_PKG_VERSION"), fixed when the crate is built
CARGO_PKG_VERSION == <<"0", ".", "1", ".", "1">>

HeaderLine == <<"/", "/", " ", "A", "u", "t", "o", "-", "g", "e", "n", "e", "r", "a", "t", "e", "d", " ", "b", "y", " ", "h", "a", "z", "u", "r", "e", " ", "c", "o", "m", "p", "i", "l", "e", "r", " ", "v", "e", "r", "s", "i", "o", "n", " ">> \o CARGO_PKG_VERSION \o <<"\n">>
ImportLine == <<"i", "m", "p", "o", "r", "t", " ", "{", " ", "r", "e", "a", "d", ",", " ", "w", "r", "i", "t", "e", ",", " ", "r", "e", "a", "d", "F", "i", "l", "e", ",", " ", "w", "r", "i", "t", "e", "F", "i", "l", "e", " ", "}", " ", "f", "r", "o", "m", " ", "\"", "h", "t", "t", "p", "s", ":", "/", "/", "r", "a", "w", ".", "g", "i", "t", "h", "u", "b", "u", "s", "e", "r", "c", "o", "n", "t", "e", "n", "t", ".", "c", "o", "m", "/", "a", "z", "u", "r", "1", "s", "/", "h", "a", "z", "u", "r", "e", "/", "m", "a", "s", "t", "e", "r", "/", "r", "u", "n", "t", "i", "m", "e", "/", "i", "o", ".", "t", "s", "\"", "\n">>
EntryCall == <<"f", "_", "m", "a", "i", "n", "(", ")", ";">>

-----------------------------------------------------------------------------
(* Token streams handed to parse.  The lexer is an external collaborator:  *)
(* it gives every token the byte range of its lexeme, in source order.     *)

T(k) == [kind |-> k]
TInt(n) == [kind |-> "Int", int |-> n]
TFloat(s) == [kind |-> "Float", str |-> s]
TBool(b) == [kind |-> "Boolean", bool |-> b]
TStr(s) == [kind |-> "String", str |-> s]
TId(s) == [kind |-> "Identifier", str |-> s]

\* length in bytes of the lexeme of a token
Width(t) ==
    CASE t.kind \in {"KwLet", "KwFun", "KwEnd"} -> 3
      [] t.kind \in {"KwDo", "Equal", "NotEqual"} -> 2
      [] t.kind = "Float" -> IF t.str = "1.50" THEN 4 ELSE 3
      [] t.kind = "String" -> 3
      [] t.kind = "Boolean" -> IF t.bool THEN 4 ELSE 5
      [] t.kind = "Identifier" -> IF t.str = "main" THEN 4 ELSE 1
      [] OTHER -> 1

\* the spanned stream of the tokens toks, the first lexeme at byte off and
\* one blank between lexemes
RECURSIVE Lex(_, _)
Lex(toks, off) ==
    IF toks = <<>> THEN <<>>
    ELSE <<Spanned(Head(toks), Span(off, off + Width(Head(toks))))>>
         \o Lex(Tail(toks), off + Width(Head(toks)) + 1)

SourceLen(ts) == IF ts = <<>> THEN 0 ELSE ts[Len(ts)][2].end

Toks(ts) == [i \in 1..Len(ts) |-> ts[i][1]]

AtomToks == {TInt(7), TId("x"), TFloat("1.50"), TStr("s"), TBool(TRUE)}

\* well-formed top-level items, without their separator
GoodItems ==
    { <<TId("x")>>,
      <<TStr("s")>>,
      <<TId("f"), T("OpenParen"), TId("x"), T("CloseParen")>>,
      <<TId("f"), T("OpenParen"), TId("x"), T("Comma"), TInt(7), T("Comma"),
        T("CloseParen"), T("OpenParen"), T("CloseParen")>>,
      <<T("Minus"), TId("x")>>,
      <<TId("x"), T("Plus"), TInt(7)>>,
      <<TBool(TRUE), T("NotEqual"), TBool(FALSE)>>,
      <<T("KwLet"), TId("x"), T("Colon"), TId("t"), T("Assign"), TInt(7)>>,
      <<T("KwLet"), TId("x"), T("Colon"), TId("t"), T("Assign"),
        TId("f"), T("OpenParen"), T("CloseParen")>>,
      <<T("KwFun"), TId("f"), T("OpenParen"), TId("x"), T("Colon"), TId("t"),
        T("CloseParen"), T("Colon"), TId("t"), T("Assign"),
        TId("x"), T("Multiply"), TInt(7)>>,
      <<T("KwFun"), TId("main"), T("Colon"), TId("t"), T("Assign"),
        T("KwDo"), TId("f"), T("OpenParen"), T("CloseParen"), T("SemiColon"), T("KwEnd")>>,
      <<T("KwDo"), TId("x"), T("SemiColon"), T("KwEnd")>>,
      <<T("KwDo"), T("KwEnd")>> }

\* malformed top-level items, with the separator that ends them
BadItems ==
    { <<T("KwLet"), TId("x"), T("Assign"), TInt(7), T("SemiColon")>>,
      <<TId("x"), T("Plus"), T("SemiColon")>>,
      <<T("CloseParen"), T("SemiColon")>>,
      <<T("KwDo"), TId("x"), T("SemiColon")>> }

Sep == <<T("SemiColon")>>

RECURSIVE Program(_)
Program(items) ==
    IF items = <<>> THEN <<>> ELSE Head(items) \o Sep \o Program(Tail(items))

Programs == {Program(items) : items \in SeqsUpTo(GoodItems, MaxProgItems)}

ArithmeticOps == {"Multiply", "Divide", "Plus", "Minus"}

\* a op1 b op2 c ;  for all four arithmetic operators
PrecStreams ==
    { <<a, T(o1), b, T(o2), c, T("SemiColon")>> :
        a \in AtomToks, b \in AtomToks, c \in AtomToks,
        o1 \in ArithmeticOps, o2 \in ArithmeticOps }

\* a well-formed item, one malformed item, a second well-formed item
RecoveryStreams ==
    { g1 \o Sep \o b \o g2 \o Sep : g1 \in GoodItems, b \in BadItems, g2 \in GoodItems }

TokenStreams == Programs \cup PrecStreams \cup RecoveryStreams

-----------------------------------------------------------------------------
(* The parser as a state machine: one call of parse.                       *)

GenIdle ==
    /\ emitted = <<>> /\ pre = <<>> /\ irs = <<>> /\ idx = 0 /\ last = <<>>
    /\ pc = "idle"

InitParse ==
    /\ \E toks \in TokenStreams, off \in {0, 2} :
          /\ tokens = Lex(toks, off)
          /\ len = SourceLen(Lex(toks, off))
    /\ ast = None
    /\ errors = <<>>
    /\ ppc = "ready"
    /\ GenIdle

Parse ==
    /\ ppc = "ready"
    /\ ast' = parse(tokens, len).ast
    /\ errors' = parse(tokens, len).errors
    /\ ppc' = "parsed"
    /\ UNCHANGED <<tokens, len>>
    /\ UNCHANGED gvars

NextParse == Parse

SpecParse == InitParse /\ [][NextParse]_vars


-----------------------------------------------------------------------------
(* IR sequences handed to gen.  Lowering is an external collaborator; the  *)
(* nodes below are trees the IR type admits.                               *)

Main == <<"m", "a", "i", "n">>
X == VIdent(<<"x">>)
Hi == VString(<<"h", "i">>)
\* a string whose content starts with a quote character
QuotedContent == VString(<<"\"", "a">>)

TopItems ==
    { Define(FALSE, FALSE, <<"x">>, <<"n", "u", "m", "b", "e", "r">>, VInt(-12)),
      Define(TRUE, TRUE, <<"y">>, <<"s", "t", "r", "i", "n", "g">>, Call(<<"f">>, <<X>>)),
      Call(Main, <<>>),
      Call(<<"f">>, <<Call(<<"g">>, <<X, VBoolean(TRUE)>>), Hi>>),
      Call(<<"f">>, <<Do(<<Call(<<"g">>, <<>>)>>)>>),
      Call(<<"f">>, <<Return(X), Return(VInt(0))>>),
      Call(<<"f">>, <<Intrinsic(<<"r", "e", "a", "d">>, <<Hi>>)>>),
      Call(<<"h">>, <<Call(<<"f">>, <<Do(<<Call(<<"g">>, <<>>)>>)>>), X>>),
      Intrinsic(<<"w", "r", "i", "t", "e">>, <<Hi>>),
      Intrinsic(<<"w", "r", "i", "t", "e", "_", "f", "i", "l", "e">>, <<Hi, X>>),
      Intrinsic(<<"r", "e", "a", "d", "_", "f", "i", "l", "e">>, <<Hi>>),
      Intrinsic(<<"e", "m", "i", "t">>, <<Hi>>),
      Intrinsic(<<"e", "m", "i", "t">>, <<QuotedContent>>),
      Intrinsic(<<"g", "e", "t">>, <<X, VInt(0)>>),
      Intrinsic(<<"r", "e", "a", "d">>, <<>>),
      Intrinsic(<<"b", "o", "g", "u", "s">>, <<Hi>>),
      Do(<<Call(<<"f">>, <<Unary(<<"-">>, Intrinsic(<<"b", "o", "g", "u", "s">>, <<>>))>>)>>),
      Intrinsic(<<"w", "r", "i", "t", "e">>, <<Hi, Intrinsic(<<"b", "o", "g", "u", "s">>, <<>>)>>),
      Fun(TRUE, Main, <<"v", "o", "i", "d">>, <<>>, Do(<<Call(<<"f">>, <<X>>), Return(VInt(7))>>)),
      Fun(FALSE, <<"f">>, <<"n", "u", "m", "b", "e", "r">>, <<(<<<<"a">>, <<"n", "u", "m", "b", "e", "r">>>>), (<<<<"b">>, <<"n", "u", "m", "b", "e", "r">>>>)>>,
          BinaryIR(VIdent(<<"a">>), <<"+">>, VIdent(<<"b">>))),
      If(Call(<<"f">>, <<>>), Do(<<Call(Main, <<>>)>>), Do(<<>>)),
      If(BinaryIR(X, <<"<">>, VInt(7)), Do(<<Return(X)>>), Do(<<Return(Hi)>>)),
      Case(X, <<(<<VInt(0), Do(<<Call(<<"f">>, <<>>)>>)>>),
                (<<Call(<<"g">>, <<>>), Do(<<>>)>>)>>, Do(<<Return(X)>>)),
      BinaryIR(X, <<"*">>, Call(Main, <<>>)),
      Vector(<<VInt(7), Unary(<<"-">>, X)>>) }

\* Codegen::new() starts the buffer empty; emitted is a public field, and a
\* second call of gen finds the text of the first
InitialBuffers == {<<>>, EntryCall}

-----------------------------------------------------------------------------
(* gen as a state machine: one step per emit of its body.                  *)

ParseIdle ==
    /\ tokens = <<>> /\ len = 0 /\ ast = None /\ errors = <<>> /\ ppc = "idle"

Init ==
    /\ emitted \in InitialBuffers
    /\ pre = emitted
    /\ irs \in SeqsUpTo(TopItems, MaxItems)
    /\ idx = 1
    /\ last = <<>>
    /\ pc = "header"
    /\ ParseIdle

\* an emit that assigns the text instead of appending it
emit_overwrite(t) == emitted' = t
\* Codegen::emit
emit(t) == emitted' = emitted \o t

GenHeader ==
    /\ pc = "header"
    /\ emit(HeaderLine)
    /\ pc' = "import"
    /\ UNCHANGED <<pre, irs, idx, last>>
    /\ UNCHANGED pvars

GenImport ==
    /\ pc = "import"
    /\ emit(ImportLine)
    /\ pc' = "loop"
    /\ UNCHANGED <<pre, irs, idx, last>>
    /\ UNCHANGED pvars

\* one iteration of the for loop: self.emit(&self.gen_ir(&ir.kind, true))
GenItem ==
    /\ pc = "loop"
    /\ idx <= Len(irs)
    /\ gen_ir(irs[idx], TRUE) # Panic
    /\ emit(gen_ir(irs[idx], TRUE))
    /\ last' = gen_ir(irs[idx], TRUE)
    /\ idx' = idx + 1
    /\ UNCHANGED <<pre, irs, pc>>
    /\ UNCHANGED pvars

\* an iteration whose gen_ir call panics: gen unwinds before the emit
GenPanic ==
    /\ pc = "loop"
    /\ idx <= Len(irs)
    /\ gen_ir(irs[idx], TRUE) = Panic
    /\ pc' = "panicked"
    /\ UNCHANGED <<emitted, pre, irs, idx, last>>
    /\ UNCHANGED pvars

GenEntry ==
    /\ pc = "loop"
    /\ idx > Len(irs)
    /\ emit(EntryCall)
    /\ pc' = "done"
    /\ UNCHANGED <<pre, irs, idx, last>>
    /\ UNCHANGED pvars

Next == GenHeader \/ GenImport \/ GenItem \/ GenPanic \/ GenEntry

Spec == Init /\ [][Next]_vars

-----------------------------------------------------------------------------
(* Properties of gen and gen_ir.                                           *)

\* the nodes an IR node holds directly
Children(ir) ==
    CASE ir.kind = "Define" -> <<ir.value>>
      [] ir.kind \in {"Call", "Intrinsic"} -> ir.args
      [] ir.kind = "Fun" -> <<ir.body>>
      [] ir.kind = "Return" -> <<ir.value>>
      [] ir.kind = "Do" -> ir.body
      [] ir.kind = "If" -> <<ir.cond, ir.body, ir.else_body>>
      [] ir.kind = "Case" ->
            <<ir.cond, ir.default>>
            \o [k \in 1..Len(ir.cases) |-> ir.cases[k][1]]
            \o [k \in 1..Len(ir.cases) |-> ir.cases[k][2]]
      [] ir.kind = "Unary" -> <<ir.right>>
      [] ir.kind = "Binary" -> <<ir.left, ir.right>>
      [] ir.kind = "Vector" -> ir.values
      [] OTHER -> <<>>

\* every node of a tree, at any depth
RECURSIVE Nodes(_)
Nodes(ir) ==
    {ir} \cup UNION {Nodes(Children(ir)[k]) : k \in 1..Len(Children(ir))}

\* the nodes of the top-level items whose rendering gen has appended
RenderedNodes == UNION {Nodes(irs[k]) : k \in 1..(idx - 1)}

HasSeparator(text) == \E k \in 1..Len(text) : text[k] = ";"

\* the renderings of the first k top-level nodes, in input order
Renderings(k) == Concat([j \in 1..k |-> gen_ir(irs[j], TRUE)])

UnknownIntrinsic(n) == n.kind = "Intrinsic" /\ n.name \notin IntrinsicNames
HasUnknown(ir) == \E n \in Nodes(ir) : UnknownIntrinsic(n)

\* every intrinsic of the sequence has one of the six names
RecognizedNames ==
    \A k \in 1..Len(irs) : ~HasUnknown(irs[k])

\* every intrinsic carries the arguments its template reads
ArgumentsPresent ==
    \A k \in 1..Len(irs) : \A n \in Nodes(irs[k]) :
        (n.kind = "Intrinsic" /\ n.name \in IntrinsicNames) =>
            Len(n.args) >= ArgsRead(n.name)

\* the buffer, position by position of gen: what was there before, then the
\* header, the import, the renderings so far and at the end the entry call
LayoutOfGen ==
    /\ pc = "header" => emitted = pre
    /\ pc = "import" => emitted = pre \o HeaderLine
    /\ pc \in {"loop", "panicked"} =>
          emitted = pre \o HeaderLine \o ImportLine \o Renderings(idx - 1)
    /\ pc = "done" =>
          emitted = pre \o HeaderLine \o ImportLine \o Renderings(Len(irs)) \o EntryCall
    /\ (pc \in {"loop", "done"} /\ idx > 1) => last = gen_ir(irs[idx - 1], TRUE)

\* C10 as stated (output layout and frame of gen): for every sequence whose
\* intrinsics have recognized names, gen runs to its end and appends, after
\* what the buffer held, the header, the import, the statement renderings in
\* input order and the entry call, with nothing in between.
C10_Original ==
    /\ LayoutOfGen
    /\ RecognizedNames => pc # "panicked"

\* C10 (amended): the same, for every sequence whose intrinsics have
\* recognized names and carry the arguments their template reads (one; two
\* for write_file and get).
C10_Layout ==
    /\ LayoutOfGen
    /\ (RecognizedNames /\ ArgumentsPresent) => pc # "panicked"

\* gen has finished on two nodes, one of them an intrinsic, from a buffer
\* that was not empty
C10_Witness ==
    /\ pc = "done"
    /\ Len(irs) = 2
    /\ irs[1].kind = "Intrinsic"
    /\ irs[2].kind = "Define"
    /\ pre # <<>>

\* C5 (entry point): when gen has finished, the buffer ends with exactly one
\* invocation f_main(); : the text before it does not end with another one.
C5_EntryPoint ==
    pc = "done" =>
      /\ EndsWith(emitted, EntryCall)
      /\ ~EndsWith(SubSeq(emitted, 1, Len(emitted) - Len(EntryCall)), EntryCall)

\* C7 (unknown intrinsic is fatal): when a top-level item holds, at any
\* depth, an intrinsic with an unknown name, gen never completes, and the
\* buffer never holds more than the renderings of the items before the first
\* such item.
C7_UnknownFatal ==
    \A k \in 1..Len(irs) :
        (HasUnknown(irs[k]) /\ \A j \in 1..(k - 1) : ~HasUnknown(irs[j])) =>
            /\ pc # "done"
            /\ idx <= k
            /\ Len(emitted) <= Len(pre \o HeaderLine \o ImportLine \o Renderings(k - 1))

\* C4 (terminator correctness of calls): a Call that is an argument of
\* another Call renders, as that argument, to text without ';', and the same
\* Call renders as a top-level statement to text with ';'.
C4_CallTerminator ==
    \A d \in RenderedNodes :
        d.kind = "Call" =>
            \A k \in 1..Len(d.args) :
                (d.args[k].kind = "Call" /\ CallArgText(d, k) # Panic) =>
                    /\ ~HasSeparator(CallArgText(d, k))
                    /\ HasSeparator(gen_ir(d.args[k], TRUE))

\* the string literal r without its opening and its closing quote
WithoutQuotes(r) == SubSeq(r, 2, Len(r) - 1)

\* C6 (intrinsic emit): emit of a string renders to the rendered string with
\* one leading and one trailing quote removed, every other character kept.
C6_EmitStripsOneQuote ==
    \A n \in RenderedNodes :
        (/\ n.kind = "Intrinsic" /\ n.name = <<"e", "m", "i", "t">> /\ Len(n.args) >= 1
         /\ n.args[1].kind = "Value" /\ n.args[1].value.tag = "String") =>
            gen_ir(n, TRUE) = WithoutQuotes(gen_ir(n.args[1], FALSE))

\* the nodes in statement position: the top-level ones, the members of a Do
StatementNodes ==
    {irs[k] : k \in 1..(idx - 1)}
    \cup UNION {{d.body[k] : k \in 1..Len(d.body)} : d \in {n \in RenderedNodes : n.kind = "Do"}}

\* the nodes in expression position: the arguments of a Call, the operands
\* of Unary and Binary, the initializer of a Define
ExpressionNodes ==
    UNION {{d.args[k] : k \in 1..Len(d.args)} : d \in {n \in RenderedNodes : n.kind = "Call"}}
    \cup {d.right : d \in {n \in RenderedNodes : n.kind \in {"Unary", "Binary"}}}
    \cup {d.left : d \in {n \in RenderedNodes : n.kind = "Binary"}}
    \cup {d.value : d \in {n \in RenderedNodes : n.kind = "Define"}}

\* C8 (statement versus expression context): a Define, a Call or an
\* Intrinsic in statement position renders to text that ends with ';' and a
\* newline; a value, an operator, a Call or an Intrinsic in expression
\* position renders to text that ends with neither ';' nor a newline.
C8_StatementVsExpression ==
    /\ \A n \in StatementNodes :
          (n.kind \in {"Define", "Call", "Intrinsic"} /\ gen_ir(n, TRUE) # Panic) =>
              EndsWith(gen_ir(n, TRUE), <<";", "\n">>)
    /\ \A n \in ExpressionNodes :
          (/\ n.kind \in {"Value", "Unary", "Binary", "Call", "Intrinsic", "Vector"}
           /\ gen_ir(n, FALSE) # Panic) =>
              /\ ~EndsWith(gen_ir(n, FALSE), <<";">>)
              /\ ~EndsWith(gen_ir(n, FALSE), <<"\n">>)

ConditionKinds == {"Value", "Binary", "Unary", "Call", "Intrinsic"}

\* C9 (condition positions are expression context): the text between the
\* parentheses of if (...) and of switch (...), and between case and : of
\* every arm, holds no ';'.
C9_ConditionsHaveNoSeparator ==
    \A n \in RenderedNodes :
        /\ (n.kind = "If" /\ n.cond.kind \in ConditionKinds /\ IfCondText(n) # Panic) =>
              ~HasSeparator(IfCondText(n))
        /\ (n.kind = "Case" /\ n.cond.kind \in ConditionKinds /\ CaseCondText(n) # Panic) =>
              ~HasSeparator(CaseCondText(n))
        /\ n.kind = "Case" =>
              \A k \in 1..Len(n.cases) :
                  (n.cases[k][1].kind \in ConditionKinds /\ CasePatternText(n, k) # Panic) =>
                      ~HasSeparator(CasePatternText(n, k))

-----------------------------------------------------------------------------
(* Properties of parse.                                                    *)

\* a spanned expression without its spans: the tree alone
RECURSIVE Tree(_)
Tree(se) ==
    LET e == se[1]
    IN CASE e.kind = "Unary" -> [kind |-> "Unary", op |-> e.op, rhs |-> Tree(e.rhs)]
         [] e.kind = "Binary" ->
               [kind |-> "Binary", lhs |-> Tree(e.lhs), op |-> e.op, rhs |-> Tree(e.rhs)]
         [] e.kind = "Call" ->
               [kind |-> "Call", name |-> Tree(e.name),
                args |-> [k \in 1..Len(e.args[1]) |-> Tree(e.args[1][k])]]
         [] e.kind = "Let" ->
               [kind |-> "Let", name |-> e.name, type_hint |-> e.type_hint,
                value |-> Tree(e.value)]
         [] e.kind = "Fun" ->
               [kind |-> "Fun", name |-> e.name, type_hint |-> e.type_hint,
                args |-> [k \in 1..Len(e.args[1]) |->
                             <<e.args[1][k][1][1], e.args[1][k][2][1]>>],
                body |-> Tree(e.body)]
         [] e.kind = "Do" ->
               [kind |-> "Do", body |-> [k \in 1..Len(e.body) |-> Tree(e.body[k])]]
         [] OTHER -> e

\* the tree an atom token denotes
AtomTree(t) ==
    CASE t.kind = "Int" -> [kind |-> "Int", int |-> t.int]
      [] t.kind = "Float" -> [kind |-> "Float", float |-> ParseFloat(t.str)]
      [] t.kind = "Boolean" -> [kind |-> "Boolean", bool |-> t.bool]
      [] t.kind = "String" -> [kind |-> "String", str |-> t.str]
      [] OTHER -> [kind |-> "Identifier", str |-> t.str]

BinaryTree(l, o, r) == [kind |-> "Binary", lhs |-> l, op |-> o, rhs |-> r]

IsAtomTok(t) == t.kind \in {"Int", "Float", "Boolean", "String", "Identifier"}

\* the stream is  a o1 b o2 c ;  with o1 in ops1 and o2 in ops2
IsPrecForm(ts, ops1, ops2) ==
    /\ Len(ts) = 6
    /\ IsAtomTok(ts[1][1]) /\ IsAtomTok(ts[3][1]) /\ IsAtomTok(ts[5][1])
    /\ ts[2][1].kind \in ops1
    /\ ts[4][1].kind \in ops2
    /\ ts[6][1].kind = "SemiColon"

MulDiv == {"Multiply", "Divide"}
AddSub == {"Plus", "Minus"}
OpText(k) ==
    CASE k = "Multiply" -> "*" [] k = "Divide" -> "/" [] k = "Plus" -> "+" [] OTHER -> "-"

\* C3 (precedence): a op1 b op2 c ; with op1 in * / and op2 in + - parses,
\* without errors, to the single item Binary{Binary{a, op1, b}, op2, c}; and
\* a op2 b op1 c ; parses to the single item Binary{a, op2, Binary{b, op1, c}}.
C3_Precedence ==
    ppc = "parsed" =>
      /\ IsPrecForm(tokens, MulDiv, AddSub) =>
            /\ errors = <<>>
            /\ ast.some
            /\ Len(ast.val) = 1
            /\ Tree(ast.val[1]) =
                 BinaryTree(BinaryTree(AtomTree(tokens[1][1]), OpText(tokens[2][1].kind),
                                       AtomTree(tokens[3][1])),
                            OpText(tokens[4][1].kind), AtomTree(tokens[5][1]))
      /\ IsPrecForm(tokens, AddSub, MulDiv) =>
            /\ errors = <<>>
            /\ ast.some
            /\ Len(ast.val) = 1
            /\ Tree(ast.val[1]) =
                 BinaryTree(AtomTree(tokens[1][1]), OpText(tokens[2][1].kind),
                            BinaryTree(AtomTree(tokens[3][1]), OpText(tokens[4][1].kind),
                                       AtomTree(tokens[5][1])))

\* a stream  a / b - c ;  has been parsed to a program
C3_Witness ==
    /\ ppc = "parsed"
    /\ IsPrecForm(tokens, {"Divide"}, {"Minus"})
    /\ tokens[1][1].kind = "Float"
    /\ ast.some

\* the positions <<first, last>> of the tokens of each top-level item of a
\* stream that parses: an item ends just before its separator
RECURSIVE ItemBounds(_, _)
ItemBounds(ts, i) ==
    LET e == expr(ts, i)
    IN IF e.ok /\ Just(ts, e.pos, "SemiColon")
       THEN <<(<<i, e.pos - 1>>)>> \o ItemBounds(ts, e.pos + 1)
       ELSE <<>>

ItemKinds == {"Let", "Fun", "Do", "Call", "Unary", "Binary"}

\* C2 (span of a top-level item): when parse returns no errors, the span of
\* every top-level item (let, fun, do-block, call, unary, binary) starts where
\* its first token starts and ends where its last token ends.
C2_ItemSpan ==
    (ppc = "parsed" /\ errors = <<>> /\ ast.some) =>
      \A k \in 1..Len(ast.val) :
        ast.val[k][1].kind \in ItemKinds =>
          /\ ast.val[k][2].start = tokens[ItemBounds(tokens, 1)[k][1]][2].start
          /\ ast.val[k][2].end = tokens[ItemBounds(tokens, 1)[k][2]][2].end

\* the stream is  g1 ; b g2 ;  for well-formed items g1, g2 and a malformed b
IsRecoveryStream(ts) ==
    \E g1 \in GoodItems, b \in BadItems, g2 \in GoodItems :
        Toks(ts) = g1 \o Sep \o b \o g2 \o Sep

\* the tree of a well-formed item, parsed on its own
ItemTree(g) == Tree(parse(Lex(g \o Sep, 0), 0).ast.val[1])

\* C1 (recovery): for a well-formed item, one malformed item and a second
\* well-formed item, parse returns a non-empty error list and a program
\* (Some) that contains both well-formed items.
C1_Recovery ==
    ppc = "parsed" =>
      \A g1 \in GoodItems, b \in BadItems, g2 \in GoodItems :
        Toks(tokens) = g1 \o Sep \o b \o g2 \o Sep =>
          /\ errors # <<>>
          /\ ast.some
          /\ \E k \in 1..Len(ast.val) : Tree(ast.val[k]) = ItemTree(g1)
          /\ \E k \in 1..Len(ast.val) : Tree(ast.val[k]) = ItemTree(g2)

\* a stream with a malformed item never yields a program
NoProgramOnError ==
    (ppc = "parsed" /\ IsRecoveryStream(tokens)) => (~ast.some /\ Len(errors) = 1)

=============================================================================
